---- MODULE Spec2Model ----
(***************************************************************************)
(* Model of the shortcut environment of trovu (src/js/modules/Env.js):     *)
(* populate, fetchShortcuts, addIncludes, addReachable and their helpers,  *)
(* run on the JavaScript job model: one macrotask at a time (a settled     *)
(* fetch), and between macrotasks the FIFO queue of promise reactions.     *)
(*                                                                         *)
(* Representation of JavaScript values                                     *)
(*  - a string that the code takes apart (a shortcut key) is the sequence  *)
(*    of its characters; other strings are TLA+ strings;                   *)
(*  - an object is a record whose domain is the set of its own properties, *)
(*    so a missing property is a missing field; undefined (as a whole      *)
(*    object) is the record with no field;                                 *)
(*  - an object used as an ordered mapping (namespaceInfos, shortcuts) is  *)
(*    the sequence of its properties in insertion order, which is the      *)
(*    order of Object.values and of for-in;                                *)
(*  - a value that is either a string or an object (a namespace of the     *)
(*    caller's list, a raw shortcut of a document) is a record, the string *)
(*    s being [str |-> s].                                                 *)
(***************************************************************************)
EXTENDS Integers, Sequences, FiniteSets, TLC

\* Longest namespace list a caller passes to populate.
MaxNamespaces == 2

(***************************************************************************)
(* JavaScript primitives                                                   *)
(***************************************************************************)

Undefined == <<>>

Has(obj, prop) == prop \in DOMAIN obj

\* Object.assign(target, source): every own property of source is written
\* onto target; Object.assign(target, undefined) leaves target as it is.
ObjectAssign(target, source) ==
    [p \in DOMAIN target \cup DOMAIN source |->
        IF p \in DOMAIN source THEN source[p] ELSE target[p]]

Whitespace == {" "}
Digits == {"0", "1", "2", "3", "4", "5", "6", "7", "8", "9"}

\* key.match(/\S+ \d/): somewhere in key, a non-whitespace character, a
\* space and a digit follow each other (the pattern is not anchored).
MatchesKeyPattern(key) ==
    \E i \in 1..(Len(key) - 2) :
        /\ key[i] \notin Whitespace
        /\ key[i + 1] = " "
        /\ key[i + 2] \in Digits

\* str.split(' '): the pieces of str between the spaces.
RECURSIVE SplitFrom(_, _, _)
SplitFrom(str, i, piece) ==
    IF i > Len(str) THEN <<piece>>
    ELSE IF str[i] = " " THEN <<piece>> \o SplitFrom(str, i + 1, <<>>)
    ELSE SplitFrom(str, i + 1, Append(piece, str[i]))

Split(str) == SplitFrom(str, 1, <<>>)

\* const [a, b] = parts: a missing element is undefined.
Element(parts, i) == IF i <= Len(parts) THEN parts[i] ELSE Undefined

\* str.split(delim) for a delim of one character: the pieces of str between
\* the delims, one piece more than there are delims.
RECURSIVE splitFrom(_, _, _, _)
splitFrom(str, delim, i, piece) ==
    IF i > Len(str) THEN <<piece>>
    ELSE IF str[i] = delim THEN <<piece>> \o splitFrom(str, delim, i + 1, <<>>)
    ELSE splitFrom(str, delim, i + 1, Append(piece, str[i]))

split(str, delim) == splitFrom(str, delim, 1, <<>>)

\* components.join(delim)
RECURSIVE join(_, _)
join(components, delim) ==
    IF components = <<>> THEN <<>>
    ELSE IF Len(components) = 1 THEN components[1]
    ELSE components[1] \o <<delim>> \o join(Tail(components), delim)

(***************************************************************************)
(* Ordered mappings: sequences of [k |-> property name, v |-> value]       *)
(***************************************************************************)

Keys(mapping) == {mapping[i].k : i \in 1..Len(mapping)}

IndexOf(mapping, key) == CHOOSE i \in 1..Len(mapping) : mapping[i].k = key

\* mapping[key], undefined when there is no such property.
Get(mapping, key) ==
    IF key \in Keys(mapping) THEN mapping[IndexOf(mapping, key)].v ELSE Undefined

\* mapping[key] = value: an existing property keeps its place.
Put(mapping, key, value) ==
    IF key \in Keys(mapping)
    THEN [mapping EXCEPT ![IndexOf(mapping, key)].v = value]
    ELSE Append(mapping, [k |-> key, v |-> value])

\* Object.fromEntries(entries) and Object.assign(mapping, entries).
RECURSIVE PutAll(_, _)
PutAll(mapping, entries) ==
    IF entries = <<>> THEN mapping
    ELSE PutAll(Put(mapping, Head(entries).k, Head(entries).v), Tail(entries))

(***************************************************************************)
(* Namespace Resolver                                                      *)
(***************************************************************************)

addFetchUrlToSiteNamespace(name) ==
    [name |-> name,
     type |-> "site",
     url |-> "https://data.trovu.net/data/shortcuts/" \o name \o ".yml"]

\* A Github namespace whose account is taken as it is given.
addFetchUrlToGithubNamespaceAsGiven(namespace, thisGithub) ==
    LET named == IF Has(namespace, "name") /\ namespace.name # ""
                 THEN namespace.name ELSE namespace.github
    IN  ObjectAssign(namespace,
            [name |-> named,
             url |-> "https://raw.githubusercontent.com/" \o namespace.github
                        \o "/trovu-data-user/master/shortcuts.yml",
             type |-> "user"])

\* thisGithub is this.github; the string "undefined" stands for an unset
\* this.github, which is what the concatenation and the property name give.
addFetchUrlToGithubNamespace(namespace, thisGithub) ==
    LET account == IF namespace.github = "." THEN thisGithub ELSE namespace.github
        named == IF Has(namespace, "name") /\ namespace.name # ""
                 THEN namespace.name ELSE account
    IN  ObjectAssign(namespace,
            [github |-> account,
             name |-> named,
             url |-> "https://raw.githubusercontent.com/" \o account
                        \o "/trovu-data-user/master/shortcuts.yml",
             type |-> "user"])

getInitalNamespaceInfo(namespace, thisGithub) ==
    IF Has(namespace, "str") /\ Len(namespace.str) < 4
    THEN addFetchUrlToSiteNamespace(namespace.str)
    ELSE IF /\ Has(namespace, "url") /\ namespace.url # ""
            /\ Has(namespace, "name") /\ namespace.name # ""
    THEN ObjectAssign(namespace, [type |-> "user"])
    ELSE IF Has(namespace, "str")
    THEN addFetchUrlToGithubNamespace([github |-> namespace.str], thisGithub)
    ELSE addFetchUrlToGithubNamespace(
            IF Has(namespace, "github") THEN namespace
            ELSE ObjectAssign(namespace, [github |-> "undefined"]),
            thisGithub)

\* namespaces.map((namespace, index) => [name, info with priority index + 1])
InitialEntriesZeroBased(namespaces, thisGithub) ==
    [index \in 1..Len(namespaces) |->
        LET namespaceInfo == getInitalNamespaceInfo(namespaces[index], thisGithub)
        IN  [k |-> namespaceInfo.name,
             v |-> ObjectAssign(namespaceInfo, [priority |-> index - 1])]]

InitialEntries(namespaces, thisGithub) ==
    [index \in 1..Len(namespaces) |->
        LET namespaceInfo == getInitalNamespaceInfo(namespaces[index], thisGithub)
        IN  [k |-> namespaceInfo.name,
             v |-> ObjectAssign(namespaceInfo, [priority |-> index])]]

getInitialNamespaceInfos(namespaces, thisGithub) ==
    PutAll(<<>>, InitialEntries(namespaces, thisGithub))

(***************************************************************************)
(* Collection documents and fetch responses                                *)
(***************************************************************************)

KeyX1 == <<"x", " ", "1">>
KeyY0 == <<"y", " ", "0">>
KeyW2 == <<"w", " ", "2">>
KeyV0 == <<"v", " ", "0">>
KeyZ == <<"z">>

\* Bare url strings, one of them under a key without argument count.
DocPlain ==
    << [k |-> KeyX1, v |-> [str |-> "https://a/{%1}"]],
       [k |-> KeyZ, v |-> [str |-> "https://z/"]] >>

\* An include within the namespace whose target defines a field the
\* including shortcut defines too, and an include without a key.
DocSame ==
    << [k |-> KeyX1, v |-> [url |-> "https://b/{%1}", title |-> "B one"]],
       [k |-> KeyY0, v |-> [title |-> "B zero", include |-> [key |-> KeyX1]]],
       [k |-> KeyW2, v |-> [url |-> "https://b/w", include |-> [note |-> "no key"]]] >>

\* x includes y, which includes w: x comes before y, v comes after y.
DocChain ==
    << [k |-> KeyX1, v |-> [include |-> [key |-> KeyY0]]],
       [k |-> KeyY0, v |-> [title |-> "C zero", include |-> [key |-> KeyW2]]],
       [k |-> KeyW2, v |-> [url |-> "https://c/{%1}/{%2}", description |-> "C two"]],
       [k |-> KeyV0, v |-> [include |-> [key |-> KeyY0]]] >>

\* Two includes from the namespace en.
DocCross ==
    << [k |-> KeyY0, v |-> [url |-> "https://d/",
                            include |-> [key |-> KeyX1, namespace |-> "en"]]],
       [k |-> KeyX1, v |-> [title |-> "D one",
                            include |-> [key |-> KeyY0, namespace |-> "en"]]] >>

\* An include from the namespace en, then an include within the namespace.
DocMixed ==
    << [k |-> KeyY0, v |-> [url |-> "https://e/",
                            include |-> [key |-> KeyX1, namespace |-> "en"]]],
       [k |-> KeyX1, v |-> [include |-> [key |-> KeyY0]]] >>

Documents == {DocPlain, DocSame, DocChain, DocCross, DocMixed}

\* What fetch resolves to: a response with status 200 whose body is a
\* document (field doc), a response with status 200 whose body jsyaml.load
\* throws on (no field doc), or a response with another status, whose body
\* may well be a document.
Responses ==
    {[status |-> 200, doc |-> d] : d \in Documents}
        \cup {[status |-> 200], [status |-> 404], [status |-> 404, doc |-> DocPlain]}

(***************************************************************************)
(* Collection Fetcher and Shortcut Verifier                                *)
(***************************************************************************)

\* parseShortcutsFromYml: [] and the error flag when jsyaml.load throws.
parseShortcutsFromYml(response) ==
    IF Has(response, "doc")
    THEN [shortcuts |-> response.doc, error |-> FALSE]
    ELSE [shortcuts |-> <<>>, error |-> TRUE]

\* verifyShortcuts: a string becomes {url: string}; the keys that do not
\* match are logged and set the error flag, and stay in the mapping.
verifyShortcuts(shortcuts) ==
    [shortcuts |->
        [i \in 1..Len(shortcuts) |->
            [k |-> shortcuts[i].k,
             v |-> IF Has(shortcuts[i].v, "str")
                   THEN [url |-> shortcuts[i].v.str]
                   ELSE shortcuts[i].v]],
     error |-> \E i \in 1..Len(shortcuts) : ~MatchesKeyPattern(shortcuts[i].k)]

\* The body of the loop of fetchShortcuts for one descriptor; response is
\* responses[namespaceInfo.priority], undefined when nothing was fetched.
FetchedShortcutsAlways(response) ==
    LET parsed == parseShortcutsFromYml(response)
        verified == verifyShortcuts(parsed.shortcuts)
    IN  [shortcuts |-> verified.shortcuts,
         error |-> parsed.error \/ verified.error]

FetchedShortcuts(response) ==
    IF response = Undefined \/ response.status # 200
    THEN [shortcuts |-> <<>>, error |-> FALSE]
    ELSE LET parsed == parseShortcutsFromYml(response)
             verified == verifyShortcuts(parsed.shortcuts)
         IN  [shortcuts |-> verified.shortcuts,
              error |-> parsed.error \/ verified.error]

\* The response that stands first, whatever the descriptor.
ResponseOfFirst(responses, namespaceInfo) ==
    IF DOMAIN responses = {} THEN Undefined
    ELSE responses[CHOOSE p \in DOMAIN responses : \A q \in DOMAIN responses : p <= q]

\* responses[namespaceInfo.priority]
ResponseOf(responses, namespaceInfo) ==
    IF namespaceInfo.priority \in DOMAIN responses
    THEN responses[namespaceInfo.priority] ELSE Undefined

\* fetchShortcuts after Promise.all: every descriptor gets its shortcuts.
ProcessResponses(namespaceInfos, responses) ==
    [infos |->
        [i \in 1..Len(namespaceInfos) |->
            [k |-> namespaceInfos[i].k,
             v |-> ObjectAssign(namespaceInfos[i].v,
                    [shortcuts |->
                        FetchedShortcuts(
                            ResponseOf(responses, namespaceInfos[i].v)).shortcuts])]],
     error |-> \E i \in 1..Len(namespaceInfos) :
                FetchedShortcuts(ResponseOf(responses, namespaceInfos[i].v)).error]

\* A mapping from indexes to values, as a sparse array is: f without the
\* indexes outside D.
Restrict(f, D) == IF D = {} THEN <<>> ELSE [p \in D |-> f[p]]

\* startFetches: promises[namespaceInfo.priority] = fetch(namespaceInfo.url)
\* for every descriptor with a url; a promise is kept here as the url that
\* is fetched.
startFetches(namespaceInfos) ==
    LET fetching == {j \in 1..Len(namespaceInfos) :
                        /\ Has(namespaceInfos[j].v, "url")
                        /\ namespaceInfos[j].v.url # ""}
    IN  Restrict([priority \in {namespaceInfos[j].v.priority : j \in fetching} |->
                    namespaceInfos[CHOOSE j \in fetching :
                        /\ namespaceInfos[j].v.priority = priority
                        /\ \A l \in fetching :
                                namespaceInfos[l].v.priority = priority => l <= j].v.url],
                 {namespaceInfos[j].v.priority : j \in fetching})

\* What fetch(url) resolves to when the server answers response: the
\* Response object, which knows the url it answers.
Fetched(url, response) == ObjectAssign(response, [url |-> url])

(***************************************************************************)
(* Include Resolver                                                        *)
(***************************************************************************)

ShortcutsOf(namespaceInfos, name) == Get(namespaceInfos, name).shortcuts

\* shortcuts[key] = shortcut in the namespace called name.
SetShortcut(namespaceInfos, name, i, shortcut) ==
    LET n == IndexOf(namespaceInfos, name)
    IN  [namespaceInfos EXCEPT ![n].v =
            ObjectAssign(@, [shortcuts |-> [@.shortcuts EXCEPT ![i].v = shortcut]])]

NoWait == [kind |-> "none"]

\* An include that assigns nothing.
includeNothing(shortcut, shortcutToInclude) == shortcut

\* shortcut = Object.assign(shortcut, shortcutToInclude)
includeShortcut(shortcut, shortcutToInclude) ==
    ObjectAssign(shortcut, shortcutToInclude)

\* An addIncludes whose loop ends at the first include without a key.
RECURSIVE addIncludesUntilIncorrect(_, _, _)
addIncludesUntilIncorrect(namespaceInfos, name, i) ==
    LET shortcuts == ShortcutsOf(namespaceInfos, name) IN
    IF i > Len(shortcuts)
    THEN [infos |-> namespaceInfos, wait |-> NoWait, error |-> FALSE]
    ELSE
    LET shortcut == shortcuts[i].v IN
    IF ~Has(shortcut, "include")
    THEN addIncludesUntilIncorrect(namespaceInfos, name, i + 1)
    ELSE IF ~Has(shortcut.include, "key")
    THEN [infos |-> namespaceInfos, wait |-> NoWait, error |-> TRUE]
    ELSE IF Has(shortcut.include, "namespace")
    THEN [infos |-> namespaceInfos,
          wait |-> [kind |-> IF shortcut.include.namespace \in Keys(namespaceInfos)
                             THEN "include" ELSE "fetch",
                    name |-> name,
                    i |-> i,
                    includeNamespace |-> shortcut.include.namespace,
                    includeKey |-> shortcut.include.key],
          error |-> FALSE]
    ELSE addIncludesUntilIncorrect(
            SetShortcut(namespaceInfos, name, i,
                includeShortcut(shortcut, Get(shortcuts, shortcut.include.key))),
            name, i + 1)

\* addIncludes from the i-th key on, up to its next await or its end.
\* wait tells what it awaits: nothing (it returned), the promise of a
\* getShortcutFromNamespace that found the namespace (kind "include": the
\* continuation is queued as a job), or one that fetches it ("fetch").
RECURSIVE addIncludesFrom(_, _, _)
addIncludesFrom(namespaceInfos, name, i) ==
    LET shortcuts == ShortcutsOf(namespaceInfos, name) IN
    IF i > Len(shortcuts)
    THEN [infos |-> namespaceInfos, wait |-> NoWait, error |-> FALSE]
    ELSE
    LET shortcut == shortcuts[i].v IN
    IF ~Has(shortcut, "include")
    THEN addIncludesFrom(namespaceInfos, name, i + 1)
    ELSE IF ~Has(shortcut.include, "key")
    THEN [addIncludesFrom(namespaceInfos, name, i + 1) EXCEPT !.error = TRUE]
    ELSE IF Has(shortcut.include, "namespace")
    THEN [infos |-> namespaceInfos,
          wait |-> [kind |-> IF shortcut.include.namespace \in Keys(namespaceInfos)
                             THEN "include" ELSE "fetch",
                    name |-> name,
                    i |-> i,
                    includeNamespace |-> shortcut.include.namespace,
                    includeKey |-> shortcut.include.key],
          error |-> FALSE]
    ELSE addIncludesFrom(
            SetShortcut(namespaceInfos, name, i,
                includeShortcut(shortcut, Get(shortcuts, shortcut.include.key))),
            name, i + 1)

\* The continuation of addIncludes after the await of wait: the shortcut
\* that getShortcutFromNamespace returned is assigned, the loop goes on.
resumeAddIncludes(namespaceInfos, wait) ==
    LET shortcutToInclude ==
            Get(ShortcutsOf(namespaceInfos, wait.includeNamespace), wait.includeKey)
        shortcut == ShortcutsOf(namespaceInfos, wait.name)[wait.i].v
    IN  addIncludesFrom(
            SetShortcut(namespaceInfos, wait.name, wait.i,
                includeShortcut(shortcut, shortcutToInclude)),
            wait.name, wait.i + 1)

\* addIncludes of the namespace called name, from its call to its return,
\* when nothing else runs in between and every namespace it includes from
\* is there: each await gets its shortcut at once and the loop goes on.
RECURSIVE addIncludesToEnd(_)
addIncludesToEnd(r) ==
    IF r.wait.kind = "include"
    THEN LET resumed == resumeAddIncludes(r.infos, r.wait)
         IN  addIncludesToEnd([resumed EXCEPT !.error = @ \/ r.error])
    ELSE r

addIncludes(namespaceInfos, name) ==
    addIncludesToEnd(addIncludesFrom(namespaceInfos, name, 1))

\* Object.values(namespaceInfos).forEach(async ...): each callback runs
\* addIncludes up to its first await, one descriptor after the other.
RECURSIVE forEachAddIncludes(_, _, _)
forEachAddIncludes(namespaceInfos, names, waits) ==
    IF names = <<>>
    THEN [infos |-> namespaceInfos, waits |-> waits, error |-> FALSE]
    ELSE LET r == addIncludesFrom(namespaceInfos, Head(names), 1)
             rest == forEachAddIncludes(r.infos, Tail(names),
                        IF r.wait = NoWait THEN waits ELSE Append(waits, r.wait))
         IN  [rest EXCEPT !.error = @ \/ r.error]

NamesOf(mapping) == [i \in 1..Len(mapping) |-> mapping[i].k]

SelectKind(waits, kind) == SelectSeq(waits, LAMBDA w : w.kind = kind)

Range(seq) == {seq[i] : i \in 1..Len(seq)}

(***************************************************************************)
(* Reachability Annotator                                                  *)
(***************************************************************************)

isSubscribed(namespaceInfo) ==
    Has(namespaceInfo, "priority") /\ namespaceInfo.priority > 0

\* UrlProcessor.getArgumentsFromString(shortcut.url): the placeholders of
\* the url template, kept here as the template they are taken from.
getArgumentsFromString(shortcut) ==
    [template |-> IF Has(shortcut, "url") THEN shortcut.url ELSE "undefined"]

addInfoToShortcut(shortcut, key, namespaceInfo) ==
    ObjectAssign(shortcut,
        [key |-> key,
         keyword |-> Element(Split(key), 1),
         argumentCount |-> Element(Split(key), 2),
         namespace |-> namespaceInfo.name,
         arguments |-> getArgumentsFromString(shortcut),
         title |-> IF Has(shortcut, "title") THEN shortcut.title ELSE ""])

\* Object.values(namespaceInfos).sort((a, b) => b.priority - a.priority):
\* the positions of the descriptors, highest priority first; the sort is
\* stable.
RECURSIVE InsertByPriority(_, _, _)
InsertByPriority(sorted, namespaceInfos, n) ==
    IF sorted = <<>> THEN <<n>>
    ELSE IF namespaceInfos[Head(sorted)].v.priority >= namespaceInfos[n].v.priority
    THEN <<Head(sorted)>> \o InsertByPriority(Tail(sorted), namespaceInfos, n)
    ELSE <<n>> \o sorted

RECURSIVE SortedUpTo(_, _)
SortedUpTo(namespaceInfos, n) ==
    IF n = 0 THEN <<>>
    ELSE InsertByPriority(SortedUpTo(namespaceInfos, n - 1), namespaceInfos, n)

namespaceInfosByPriority(namespaceInfos) ==
    SortedUpTo(namespaceInfos, Len(namespaceInfos))

\* The inner loop of addReachable over the keys of one descriptor.
RECURSIVE annotateFrom(_, _, _, _)
annotateFrom(shortcuts, i, namespaceInfo, foundShortcuts) ==
    IF i > Len(shortcuts)
    THEN [shortcuts |-> shortcuts, foundShortcuts |-> foundShortcuts]
    ELSE LET key == shortcuts[i].k
             shortcut == ObjectAssign(
                            addInfoToShortcut(shortcuts[i].v, key, namespaceInfo),
                            [reachable |-> key \notin foundShortcuts])
         IN  annotateFrom([shortcuts EXCEPT ![i].v = shortcut], i + 1,
                          namespaceInfo, foundShortcuts \cup {key})

\* The outer loop of addReachable over the sorted descriptors.
RECURSIVE addReachableFrom(_, _, _)
addReachableFrom(namespaceInfos, order, foundShortcuts) ==
    IF order = <<>> THEN namespaceInfos
    ELSE LET n == Head(order)
             namespaceInfo == namespaceInfos[n].v
         IN  IF ~isSubscribed(namespaceInfo) \/ ~Has(namespaceInfo, "shortcuts")
             THEN addReachableFrom(namespaceInfos, Tail(order), foundShortcuts)
             ELSE LET r == annotateFrom(namespaceInfo.shortcuts, 1,
                                        namespaceInfo, foundShortcuts)
                  IN  addReachableFrom(
                        [namespaceInfos EXCEPT ![n].v =
                            ObjectAssign(@, [shortcuts |-> r.shortcuts])],
                        Tail(order), r.foundShortcuts)

addReachable(namespaceInfos) ==
    addReachableFrom(namespaceInfos, namespaceInfosByPriority(namespaceInfos), {})

(***************************************************************************)
(* Environment: the state of one Env object and of its populate call       *)
(***************************************************************************)

VARIABLES
    pc,             \* where populate stands
    this,           \* the Env object, but for this.namespaceInfos
    params,         \* the argument of populate
    namespaceInfos, \* the mapping built by getNamespaceInfos, which populate
                    \* stores in this.namespaceInfos (the same object)
    promises,       \* fetchShortcuts of populate: priority -> url of the pending fetch
    responses,      \* fetchShortcuts of populate: priority -> response
    jobs,           \* the queue of promise reactions that are ready to run
    fetches,        \* addIncludes calls awaiting the fetch of a namespace
    configYmlFetched, \* getUserConfigFromGithub: what Helper.fetchAsync gave
    call            \* processCall: where it stands, its query, the globals
                    \* keyword and argumentString, its arguments and fetchUrl

vars == <<pc, this, params, namespaceInfos, promises, responses, jobs, fetches,
          configYmlFetched, call>>

\* Helper.fetchAsync was not called for the config url, or has not settled.
NoConfigFetch == [fetch |-> "none"]

\* processCall was not called.
NoCall == [at |-> "none"]

\* this.github as the code uses it in a url and as a property name.
thisGithub == IF Has(this, "github") THEN this.github ELSE "undefined"

thisNamespaces == IF Has(this, "namespaces") THEN this.namespaces ELSE <<>>

thisError == Has(this, "error") /\ this.error

\* this.error = true, when flag holds.
SetError(obj, flag) == IF flag THEN ObjectAssign(obj, [error |-> TRUE]) ELSE obj

\* The namespaces a caller lists: site namespaces and a Github account.
NamespaceSpecs == {[str |-> "o"], [str |-> "en"], [str |-> "jdoe"]}

RECURSIVE SeqsUpTo(_, _)
SeqsUpTo(S, n) ==
    IF n = 0 THEN {<<>>}
    ELSE LET shorter == SeqsUpTo(S, n - 1)
         IN  shorter \cup {Append(q, x) : q \in {r \in shorter : Len(r) = n - 1}, x \in S}

NamespaceLists == SeqsUpTo(NamespaceSpecs, MaxNamespaces)

\* The arguments of populate: language and country always, and any of
\* github, namespaces and query.
Params ==
    {ObjectAssign(ObjectAssign(ObjectAssign([language |-> "en", country |-> "us"], g), n), q) :
        g \in {Undefined, [github |-> ""], [github |-> "jdoe"]},
        n \in {Undefined} \cup {[namespaces |-> list] : list \in NamespaceLists},
        q \in {Undefined, [query |-> "g foo"], [query |-> "en.g foo"]}}

\* What Helper.fetchAsync gives for the config url: nothing, a text that
\* jsyaml.load throws on (no field config), or the text of a config.
ConfigYmls ==
    {Undefined, [text |-> "{"],
     [text |-> "defaultKeyword: g", config |-> [defaultKeyword |-> "g"]],
     [text |-> "namespaces: [o, {github: .}]",
      config |-> [namespaces |-> <<[str |-> "o"], [github |-> "."]>>]]}

\* A getUserConfigFromGithub that returns false without this.error.
getUserConfigFromGithubSilently(configYml) ==
    IF configYml # Undefined /\ Has(configYml, "config")
    THEN [config |-> configYml.config, error |-> FALSE]
    ELSE [config |-> Undefined, error |-> FALSE]

\* getUserConfigFromGithub after its await: the config, or false with
\* this.error set.
getUserConfigFromGithub(configYml) ==
    IF configYml # Undefined /\ Has(configYml, "config")
    THEN [config |-> configYml.config, error |-> FALSE]
    ELSE [config |-> Undefined, error |-> TRUE]

\* QueryParser.parse(query): of its result, the namespace that the keyword
\* is prefixed with.
QueryParserParse(obj) ==
    IF Has(obj, "query") /\ obj.query = "en.g foo"
    THEN [keyword |-> "g", extraNamespaceName |-> "en"]
    ELSE IF Has(obj, "query") THEN [keyword |-> "g"]
    ELSE [keyword |-> ""]

\* setDefaults, language and country being strings.
setDefaults(obj) ==
    ObjectAssign(obj,
        [namespaces |-> IF Has(obj, "namespaces") THEN obj.namespaces
                        ELSE <<[str |-> "o"], [str |-> obj.language],
                               [str |-> "." \o obj.country]>>,
         debug |-> Has(obj, "debug") /\ obj.debug])

\* this.namespaces.push(this.extraNamespaceName)
pushExtraNamespace(obj) ==
    IF Has(obj, "extraNamespaceName") /\ obj.extraNamespaceName # ""
    THEN ObjectAssign(obj,
            [namespaces |-> Append(obj.namespaces, [str |-> obj.extraNamespaceName])])
    ELSE obj

\* populate from Object.assign(this, params) to the call of
\* getNamespaceInfos.
configured(obj, p) ==
    LET assigned == ObjectAssign(obj, p)
    IN  pushExtraNamespace(setDefaults(ObjectAssign(assigned, QueryParserParse(assigned))))

Init ==
    /\ pc = "Uninitialized"
    /\ this = [configUrlTemplate |->
                "https://raw.githubusercontent.com/{%github}/trovu-data-user/master/config.yml"]
    /\ params = Undefined
    /\ namespaceInfos = <<>>
    /\ promises = <<>>
    /\ responses = <<>>
    /\ jobs = <<>>
    /\ fetches = {}
    /\ configYmlFetched = NoConfigFetch
    /\ call = NoCall

\* populate with env as this, from Object.assign(this, params) up to the
\* await of Promise.all in fetchShortcuts: the descriptors are built and the
\* fetches started.
StartCollections(env, p) ==
    LET obj == configured(env, p)
        github == IF Has(obj, "github") THEN obj.github ELSE "undefined"
        initial == getInitialNamespaceInfos(obj.namespaces, github)
    IN  /\ this' = obj
        /\ namespaceInfos' = initial
        /\ promises' = startFetches(initial)
        /\ pc' = "FetchingCollections"

\* populate(params) is called: with params.github it awaits the user's
\* config first.
Populate ==
    /\ pc = "Uninitialized"
    /\ \E p \in Params :
        /\ params' = p
        /\ IF Has(p, "github") /\ p.github # ""
           THEN /\ pc' = "FetchingUserConfig"
                /\ UNCHANGED <<this, namespaceInfos, promises>>
           ELSE StartCollections(this, p)
    /\ UNCHANGED <<call, configYmlFetched, responses, jobs, fetches>>

\* Helper.fetchAsync of the config url has settled: the rest of
\* setWithUserConfigFromGithub, and populate goes on.
UserConfigFetched ==
    /\ pc = "FetchingUserConfig"
    /\ \E configYml \in ConfigYmls :
        LET r == getUserConfigFromGithub(configYml)
        IN  /\ StartCollections(ObjectAssign(SetError(this, r.error), r.config), params)
            /\ configYmlFetched' = configYml
    /\ UNCHANGED <<call, params, responses, jobs, fetches>>

\* One of the fetches of populate resolves to a response.
FetchResponds ==
    /\ pc = "FetchingCollections"
    /\ jobs = <<>>
    /\ \E priority \in DOMAIN promises, response \in Responses :
        /\ promises' = Restrict(promises, DOMAIN promises \ {priority})
        /\ responses' = (priority :> Fetched(promises[priority], response)) @@ responses
    /\ UNCHANGED <<call, configYmlFetched, pc, this, params, namespaceInfos, jobs, fetches>>

\* One of the fetches of populate rejects: Promise.all rejects, and with it
\* fetchShortcuts, getNamespaceInfos and populate, none of which catches.
FetchRejects ==
    /\ pc = "FetchingCollections"
    /\ jobs = <<>>
    /\ \E priority \in DOMAIN promises :
        promises' = Restrict(promises, DOMAIN promises \ {priority})
    /\ pc' = "Threw"
    /\ UNCHANGED <<call, configYmlFetched, this, params, namespaceInfos, responses, jobs, fetches>>

\* Promise.all resolved: the loop of fetchShortcuts, which returns.
FetchShortcutsReturns ==
    /\ pc = "FetchingCollections"
    /\ DOMAIN promises = {}
    /\ LET r == ProcessResponses(namespaceInfos, responses)
       IN  /\ namespaceInfos' = r.infos
           /\ this' = SetError(this, r.error)
    /\ pc' = "ResolvingIncludes"
    /\ jobs' = <<[kind |-> "forEach"]>>
    /\ UNCHANGED <<call, configYmlFetched, params, promises, responses, fetches>>

\* getNamespaceInfos after fetchShortcuts: forEach starts addIncludes for
\* every descriptor, then the await of forEach's undefined queues the rest.
ForEachAddIncludes ==
    /\ jobs # <<>> /\ Head(jobs).kind = "forEach"
    /\ LET r == forEachAddIncludes(namespaceInfos, NamesOf(namespaceInfos), <<>>)
       IN  /\ namespaceInfos' = r.infos
           /\ this' = SetError(this, r.error)
           /\ jobs' = Tail(jobs) \o SelectKind(r.waits, "include")
                        \o <<[kind |-> "addReachable"]>>
           /\ fetches' = fetches \cup Range(SelectKind(r.waits, "fetch"))
    /\ UNCHANGED <<call, configYmlFetched, pc, params, promises, responses>>

\* Where an addIncludes call goes after it ran up to its next await.
Await(r, rest) ==
    /\ namespaceInfos' = r.infos
    /\ this' = SetError(this, r.error)
    /\ jobs' = IF r.wait.kind = "include" THEN Append(rest, r.wait) ELSE rest
    /\ fetches' = (fetches \ {f \in fetches : f.name = r.wait.name})
                    \cup (IF r.wait.kind = "fetch" THEN {r.wait} ELSE {})

\* addIncludes goes on with the shortcut of a namespace that was there.
IncludeJob ==
    /\ jobs # <<>> /\ Head(jobs).kind = "include"
    /\ LET r == resumeAddIncludes(namespaceInfos, Head(jobs))
       IN  Await([r EXCEPT !.wait = IF @ = NoWait
                                    THEN [kind |-> "none", name |-> Head(jobs).name]
                                    ELSE @],
                 Tail(jobs))
    /\ UNCHANGED <<call, configYmlFetched, pc, params, promises, responses>>

\* An addReachable after which getNamespaceInfos never returns.
AddReachableJobNoReturn ==
    /\ jobs # <<>> /\ Head(jobs).kind = "addReachable"
    /\ namespaceInfos' = addReachable(namespaceInfos)
    /\ pc' = "AnnotatingReachability"
    /\ jobs' = Tail(jobs)
    /\ UNCHANGED <<call, configYmlFetched, this, params, promises, responses, fetches>>

\* getNamespaceInfos after the await of forEach: addReachable, and return.
AddReachableJob ==
    /\ jobs # <<>> /\ Head(jobs).kind = "addReachable"
    /\ namespaceInfos' = addReachable(namespaceInfos)
    /\ pc' = "AnnotatingReachability"
    /\ jobs' = Append(Tail(jobs), [kind |-> "populate"])
    /\ UNCHANGED <<call, configYmlFetched, this, params, promises, responses, fetches>>

\* populate after the await of getNamespaceInfos: this.namespaceInfos is
\* set and populate returns.
PopulateReturns ==
    /\ jobs # <<>> /\ Head(jobs).kind = "populate"
    /\ pc' = "Ready"
    /\ jobs' = Tail(jobs)
    /\ UNCHANGED <<call, configYmlFetched, this, params, namespaceInfos, promises, responses, fetches>>

\* getShortcutFromNamespace: the fetch of the missing namespace resolves;
\* its fetchShortcuts builds the descriptor, which is assigned into
\* namespaceInfos, and addIncludes goes on with the shortcut found there.
\* namespaceInfos[namespaceName] is read after the assignment: when the
\* descriptor came under another name the read throws and addIncludes ends.
IncludeFetchResponds ==
    /\ jobs = <<>>
    /\ \E f \in fetches, response \in Responses :
        LET initial == getInitialNamespaceInfos(<<[str |-> f.includeNamespace]>>, thisGithub)
            fetched == ProcessResponses(initial,
                Restrict([p \in DOMAIN startFetches(initial) |->
                            Fetched(startFetches(initial)[p], response)],
                         DOMAIN startFetches(initial)))
            assigned == PutAll(namespaceInfos, fetched.infos)
        IN  IF f.includeNamespace \in Keys(assigned)
            THEN LET r == resumeAddIncludes(assigned, f)
                 IN  Await([r EXCEPT !.error = @ \/ fetched.error,
                                     !.wait = IF @ = NoWait
                                              THEN [kind |-> "none", name |-> f.name]
                                              ELSE @],
                           jobs)
            ELSE /\ namespaceInfos' = assigned
                 /\ this' = SetError(this, fetched.error)
                 /\ fetches' = fetches \ {f}
                 /\ jobs' = jobs
    /\ UNCHANGED <<call, configYmlFetched, pc, params, promises, responses>>

\* The fetch of the missing namespace rejects: fetchShortcuts throws, and
\* so do getShortcutFromNamespace and the addIncludes call, which ends.
IncludeFetchRejects ==
    /\ jobs = <<>>
    /\ \E f \in fetches : fetches' = fetches \ {f}
    /\ UNCHANGED <<call, configYmlFetched, pc, this, params, namespaceInfos, promises, responses, jobs>>

Next ==
    \/ Populate
    \/ UserConfigFetched
    \/ FetchResponds
    \/ FetchRejects
    \/ FetchShortcutsReturns
    \/ ForEachAddIncludes
    \/ IncludeJob
    \/ AddReachableJob
    \/ PopulateReturns
    \/ IncludeFetchResponds
    \/ IncludeFetchRejects

Spec == Init /\ [][Next]_vars

(***************************************************************************)
(* populate when every fetch is answered: no fetch rejects, an answer to   *)
(* a pending fetch comes in the end, and the queue of promise reactions is *)
(* run to its end before anything else happens                             *)
(***************************************************************************)

\* The promise reaction at the head of the queue runs.
RunJob == ForEachAddIncludes \/ IncludeJob \/ AddReachableJob \/ PopulateReturns

NextResponding ==
    \/ Populate
    \/ UserConfigFetched
    \/ FetchResponds
    \/ FetchShortcutsReturns
    \/ ForEachAddIncludes
    \/ IncludeJob
    \/ AddReachableJob
    \/ PopulateReturns
    \/ IncludeFetchResponds

\* Weak fairness of the config fetch settling, of a collection fetch being
\* answered, of Promise.all resolving and of the queue of reactions being
\* run. For UserConfigFetched and RunJob, WF_vars(A) is written out as
\* <>[]ENABLED <<A>>_vars => []<><<A>>_vars with the guard of A in the
\* place of ENABLED <<A>>_vars.
SpecResponding ==
    /\ Init /\ [][NextResponding]_vars
    /\ (<>[](pc = "FetchingUserConfig") => []<><<UserConfigFetched>>_vars)
    /\ WF_vars(FetchResponds)
    /\ WF_vars(FetchShortcutsReturns)
    /\ (<>[](jobs # <<>>) => []<><<RunJob>>_vars)

(***************************************************************************)
(* getInitialNamespaceInfos on its own, over every kind of namespace a     *)
(* caller may list                                                         *)
(***************************************************************************)

\* Longest namespace list given to getInitialNamespaceInfos on its own.
MaxResolverList == 2

ResolverSpecs ==
    {[str |-> "o"], [str |-> "en"], [str |-> "jdoe"], [str |-> "."],
     [github |-> "."],
     [github |-> "jdoe", name |-> "o"],
     [url |-> "https://example.org/my.yml", name |-> "en"]}

InitResolver ==
    /\ pc = "Uninitialized"
    /\ this \in {ObjectAssign([namespaces |-> list], g) :
                    list \in SeqsUpTo(ResolverSpecs, MaxResolverList),
                    g \in {Undefined, [github |-> "jdoe"]}}
    /\ params = Undefined
    /\ namespaceInfos = <<>>
    /\ promises = <<>>
    /\ responses = <<>>
    /\ jobs = <<>>
    /\ fetches = {}
    /\ configYmlFetched = NoConfigFetch
    /\ call = NoCall

Resolve ==
    /\ pc = "Uninitialized"
    /\ namespaceInfos' = getInitialNamespaceInfos(thisNamespaces, thisGithub)
    /\ pc' = "Resolved"
    /\ UNCHANGED <<call, configYmlFetched, this, params, promises, responses, jobs, fetches>>

NextResolver == Resolve

SpecResolver == InitResolver /\ [][NextResolver]_vars

(***************************************************************************)
(* addIncludes on its own: one namespace whose document was fetched, and   *)
(* addIncludes called on its shortcuts, then called on them once more      *)
(***************************************************************************)

\* Most shortcuts of a document given to addIncludes on its own.
MaxShortcuts == 3

IncludeKeys == {KeyX1, KeyY0, KeyW2}

\* A bare url, a shortcut without include, includes within the namespace,
\* an include that names the namespace itself, an include without a key.
IncludeShortcuts ==
    {[str |-> "https://a/{%1}"],
     [url |-> "https://b/{%1}", title |-> "T"],
     [title |-> "U", include |-> [key |-> KeyX1]],
     [include |-> [key |-> KeyY0]],
     [description |-> "D", include |-> [key |-> KeyW2, namespace |-> "o"]],
     [url |-> "https://b/w", include |-> [note |-> "no key"]]}

\* The documents: a YAML mapping has every key once.
IncludeDocuments ==
    {d \in SeqsUpTo([k : IncludeKeys, v : IncludeShortcuts], MaxShortcuts) :
        \A i, j \in 1..Len(d) : d[i].k = d[j].k => i = j}

\* fetchShortcuts(['o']) has returned with the document d.
InitIncludes ==
    /\ pc = "Fetched"
    /\ this = [namespaces |-> <<[str |-> "o"]>>]
    /\ params = Undefined
    /\ promises = <<>>
    /\ \E d \in IncludeDocuments :
        LET initial == getInitialNamespaceInfos(<<[str |-> "o"]>>, "undefined")
        IN  /\ responses = [p \in DOMAIN startFetches(initial) |->
                                Fetched(startFetches(initial)[p], [status |-> 200, doc |-> d])]
            /\ namespaceInfos = ProcessResponses(initial, responses).infos
    /\ jobs = <<>>
    /\ fetches = {}
    /\ configYmlFetched = NoConfigFetch
    /\ call = NoCall

\* namespaceInfo.shortcuts = await this.addIncludes(namespaceInfo.shortcuts,
\* namespaceInfos)
AddIncludes ==
    /\ pc = "Fetched"
    /\ LET r == addIncludes(namespaceInfos, namespaceInfos[1].k)
       IN  /\ namespaceInfos' = r.infos
           /\ this' = SetError(this, r.error)
    /\ pc' = "IncludesAdded"
    /\ UNCHANGED <<call, configYmlFetched, params, promises, responses, jobs, fetches>>

\* The same call on the shortcuts that the first call returned.
AddIncludesAgain ==
    /\ pc = "IncludesAdded"
    /\ LET r == addIncludes(namespaceInfos, namespaceInfos[1].k)
       IN  /\ namespaceInfos' = r.infos
           /\ this' = SetError(this, r.error)
    /\ pc' = "IncludesAddedAgain"
    /\ UNCHANGED <<call, configYmlFetched, params, promises, responses, jobs, fetches>>

NextIncludes ==
    \/ AddIncludes
    \/ AddIncludesAgain

SpecIncludes == InitIncludes /\ [][NextIncludes]_vars

(***************************************************************************)
(* processCall: a query is split into keyword and arguments, and the url   *)
(* of the shortcut is built and fetched                                    *)
(***************************************************************************)

\* Longest query given to processCall, but for the literal of its line 53.
MaxQueryLen == 4

QueryChars == {"g", "f", " ", ","}

\* query = 'g foo'
QueryGFoo == <<"g", " ", "f", "o", "o">>

\* The queries that processCall splits: the literal that the code puts in
\* the place of the decoded params.query, and every short text.
Queries == SeqsUpTo(QueryChars, MaxQueryLen) \cup {QueryGFoo}

\* splitOnce: the first component, and the others joined again when there
\* are any.
splitOnce(str, delim) ==
    LET components == split(str, delim)
        result == <<Head(components)>>
    IN  IF Tail(components) # <<>>
        THEN Append(result, join(Tail(components), delim))
        ELSE result

\* buildFetchUrl: the url template with keyword and argumentCount in the
\* place of its two placeholders, as the sequence of its parts.
buildFetchUrl(keyword, argumentCount) ==
    <<"https://raw.githubusercontent.com/trovu/trovu/master/shortcuts/o/">>
        \o keyword \o <<"/", ToString(argumentCount), ".call.json">>

\* processCall from the split of query to its await of fetchAsync.
\* [keyword, argumentString] = splitOnce(query, " ") leaves argumentString
\* undefined when splitOnce returns one element, and argumentString.split
\* then throws a TypeError.
processCall(query) ==
    LET result == splitOnce(query, " ")
        assigned == IF Len(result) >= 2
                    THEN [query |-> query, keyword |-> result[1],
                          argumentString |-> result[2]]
                    ELSE [query |-> query, keyword |-> result[1]]
    IN  IF ~Has(assigned, "argumentString")
        THEN ObjectAssign(assigned, [at |-> "Threw"])
        ELSE LET arguments == split(assigned.argumentString, ",")
             IN  ObjectAssign(assigned,
                    [at |-> "Fetching",
                     arguments |-> arguments,
                     fetchUrl |-> buildFetchUrl(assigned.keyword, Len(arguments))])

\* What fetchAsync resolves to: null for a status other than 200, or the
\* json of the response.
CallShortcuts == {[null |-> TRUE], [url |-> "https://a/{%1}"]}

InitQuery ==
    /\ pc = "Uninitialized"
    /\ this = [configUrlTemplate |->
                "https://raw.githubusercontent.com/{%github}/trovu-data-user/master/config.yml"]
    /\ params = Undefined
    /\ namespaceInfos = <<>>
    /\ promises = <<>>
    /\ responses = <<>>
    /\ jobs = <<>>
    /\ fetches = {}
    /\ configYmlFetched = NoConfigFetch
    /\ call \in {[at |-> "Called", query |-> query] : query \in Queries}

\* processCall runs up to its await, or throws.
ProcessCall ==
    /\ call.at = "Called"
    /\ call' = processCall(call.query)
    /\ UNCHANGED <<pc, this, params, namespaceInfos, promises, responses, jobs,
                   fetches, configYmlFetched>>

\* fetchAsync resolves: processCall logs the shortcut and returns.
ShortcutFetched ==
    /\ call.at = "Fetching"
    /\ \E shortcut \in CallShortcuts :
        call' = ObjectAssign(call, [at |-> "Logged", shortcut |-> shortcut])
    /\ UNCHANGED <<pc, this, params, namespaceInfos, promises, responses, jobs,
                   fetches, configYmlFetched>>

\* The fetch of fetchAsync rejects, and with it fetchAsync and processCall.
ShortcutFetchRejects ==
    /\ call.at = "Fetching"
    /\ call' = ObjectAssign(call, [at |-> "Rejected"])
    /\ UNCHANGED <<pc, this, params, namespaceInfos, promises, responses, jobs,
                   fetches, configYmlFetched>>

NextQuery ==
    \/ ProcessCall
    \/ ShortcutFetched
    \/ ShortcutFetchRejects

SpecQuery == InitQuery /\ [][NextQuery]_vars

(***************************************************************************)
(* What the properties speak of                                            *)
(***************************************************************************)

\* The names under which the namespaces of the caller's list are stored.
ListedNames == Keys(getInitialNamespaceInfos(thisNamespaces, thisGithub))

Listed == {n \in 1..Len(namespaceInfos) : namespaceInfos[n].k \in ListedNames}

Annotated == pc \in {"AnnotatingReachability", "Ready"}

\* populate has returned and nothing it started is left to run.
Final == pc = "Ready" /\ jobs = <<>> /\ fetches = {}

\* The addIncludes calls that have not come to their end.
PendingIncludes ==
    {jobs[j].name : j \in {i \in 1..Len(jobs) : jobs[i].kind = "include"}}
        \cup {f.name : f \in fetches}

\* The response to the fetch of the n-th descriptor, and its document such
\* as verifyShortcuts hands it on.
ResponseAt(n) == ResponseOf(responses, namespaceInfos[n].v)

Succeeded(n) ==
    /\ ResponseAt(n) # Undefined
    /\ ResponseAt(n).status = 200
    /\ Has(ResponseAt(n), "doc")

DocumentAt(n) == verifyShortcuts(ResponseAt(n).doc).shortcuts

ShortcutsAt(n) == namespaceInfos[n].v.shortcuts

\* The listed descriptors that define key and take part in reachability.
Defining(key) ==
    {n \in Listed : isSubscribed(namespaceInfos[n].v) /\ key \in Keys(ShortcutsAt(n))}

Highest(key) ==
    CHOOSE n \in Defining(key) :
        \A m \in Defining(key) :
            namespaceInfos[m].v.priority <= namespaceInfos[n].v.priority

(***************************************************************************)
(* Properties                                                              *)
(***************************************************************************)

\* C1: once populate has returned, under every key exactly the entry of the
\* subscribed namespace with the highest priority among those that define
\* the key has reachable = true, and every other entry under that key has
\* reachable = false. Stated for the namespaces of the caller's list only.
C1_OneReachablePerKey ==
    pc = "Ready" =>
        \A n \in Listed : \A i \in 1..Len(ShortcutsAt(n)) :
            LET key == ShortcutsAt(n)[i].k
                shortcut == ShortcutsAt(n)[i].v
            IN  isSubscribed(namespaceInfos[n].v) =>
                    /\ Has(shortcut, "reachable")
                    /\ shortcut.reachable = (n = Highest(key))

\* C2: where a shortcut of a document includes a key of the same document,
\* every field that the document gives to both the shortcut and the
\* included one has, once all includes are resolved, the value the document
\* gives to the including shortcut.
C2_OwnFieldsKept ==
    Final =>
        \A n \in Listed : Succeeded(n) =>
            \A i \in 1..Len(DocumentAt(n)) :
                LET own == DocumentAt(n)[i].v
                    included == IF /\ Has(own, "include")
                                   /\ Has(own.include, "key")
                                   /\ ~Has(own.include, "namespace")
                                THEN Get(DocumentAt(n), own.include.key)
                                ELSE Undefined
                IN  \A p \in (DOMAIN own \cap DOMAIN included) \ {"include"} :
                        ShortcutsAt(n)[i].v[p] = own[p]

\* C3: fetchShortcuts never throws, whatever the fetches come to; a
\* namespace whose fetch fails has no shortcuts and every other namespace
\* has the keys of its own document.
C3_FetchShortcutsCompletes ==
    /\ pc # "Threw"
    /\ (pc = "ResolvingIncludes" /\ jobs # <<>> /\ Head(jobs).kind = "forEach") =>
            \A n \in 1..Len(namespaceInfos) :
                NamesOf(ShortcutsAt(n)) =
                    IF Succeeded(n) THEN NamesOf(ResponseAt(n).doc) ELSE <<>>

\* C4: addReachable runs only when every addIncludes call has come to its
\* end, so once the entries are annotated none is left waiting.
C4_AnnotatedAfterIncludes ==
    Annotated => PendingIncludes = {}

\* C5: once populate has returned no namespace holds a shortcut under a key
\* that does not match the key pattern.
C5_NoMalformedKey ==
    pc = "Ready" =>
        \A n \in Listed : \A i \in 1..Len(ShortcutsAt(n)) :
            MatchesKeyPattern(ShortcutsAt(n)[i].k)

\* The name under which the i-th namespace of the list is stored.
NameOfSpec(i) == getInitalNamespaceInfo(thisNamespaces[i], thisGithub).name

Priorities == {namespaceInfos[n].v.priority : n \in 1..Len(namespaceInfos)}

\* C6 as the specification has it: the priorities of the k descriptors
\* that getInitialNamespaceInfos returns are exactly 1..k, each descriptor
\* standing at the place of the list that its priority tells.
C6_DensePriorities ==
    pc = "Resolved" =>
        /\ Priorities = 1..Len(namespaceInfos)
        /\ \A n \in 1..Len(namespaceInfos) :
                NameOfSpec(namespaceInfos[n].v.priority) = namespaceInfos[n].k

\* C6, amended: the priority of a descriptor is the 1-based place of the
\* last namespace of the list that is stored under its name; priorities are
\* pairwise distinct and lie within 1..length of the list; when no two
\* namespaces of the list share a name they are exactly 1..k.
C6_PriorityIsLastPosition ==
    pc = "Resolved" =>
        /\ \A n \in 1..Len(namespaceInfos) :
            LET places == {i \in 1..Len(thisNamespaces) : NameOfSpec(i) = namespaceInfos[n].k}
            IN  /\ places # {}
                /\ namespaceInfos[n].v.priority \in places
                /\ \A i \in places : i <= namespaceInfos[n].v.priority
        /\ \A n, m \in 1..Len(namespaceInfos) :
                namespaceInfos[n].v.priority = namespaceInfos[m].v.priority => n = m
        /\ Priorities \subseteq 1..Len(thisNamespaces)
        /\ {NameOfSpec(i) : i \in 1..Len(thisNamespaces)} = Keys(namespaceInfos)
        /\ (\A i, j \in 1..Len(thisNamespaces) : NameOfSpec(i) = NameOfSpec(j) => i = j)
                => Priorities = 1..Len(namespaceInfos)

\* C6, its case: a list that names a namespace twice has been resolved.
C6_Witness ==
    /\ pc = "Resolved"
    /\ Len(thisNamespaces) = 2
    /\ Len(namespaceInfos) = 1
    /\ namespaceInfos[1].v.priority = 2

\* C7: populate does not come to Ready when none of the listed namespaces
\* could be fetched and parsed.
C7_FailedWhenNothingResolves ==
    (pc = "Ready" /\ thisNamespaces # <<>>) => \E n \in Listed : Succeeded(n)

\* Every listed namespace got a response: one that is not 200 or does not
\* parse for some namespace, a document for another one.
OneFailsOneSucceeds ==
    /\ \A n \in Listed : ResponseAt(n) # Undefined
    /\ \E n \in Listed : ResponseAt(n) # Undefined /\ ~Succeeded(n)
    /\ \E n \in Listed : Succeeded(n) /\ ResponseAt(n).doc # <<>>

IsAnnotated(shortcut) ==
    /\ Has(shortcut, "reachable")
    /\ Has(shortcut, "key")
    /\ Has(shortcut, "keyword")
    /\ Has(shortcut, "namespace")

DegradedSnapshot ==
    \A n \in Listed :
        IF Succeeded(n)
        THEN /\ NamesOf(ShortcutsAt(n)) = NamesOf(ResponseAt(n).doc)
             /\ \A i \in 1..Len(ShortcutsAt(n)) : IsAnnotated(ShortcutsAt(n)[i].v)
        ELSE ShortcutsAt(n) = <<>>

\* populate stands before Ready with the promise reaction queued that
\* takes it on; the queue of reactions is always run to its end.
OnItsWay ==
    \/ pc = "FetchingCollections" /\ DOMAIN promises = {}
    \/ pc = "ResolvingIncludes"
        /\ \E j \in 1..Len(jobs) : jobs[j].kind \in {"forEach", "addReachable"}
    \/ pc = "AnnotatingReachability"
        /\ \E j \in 1..Len(jobs) : jobs[j].kind = "populate"

\* C8: when every fetch of populate has got a response, one of them not 200
\* or unparsable and another one a document, populate has not thrown and is
\* on its way to Ready or there; at Ready the failing namespace has no
\* shortcuts and the namespace that was read has the shortcuts of its
\* document, all annotated.
C8_DegradedNamespaceStillReady ==
    (pc # "Uninitialized" /\ DOMAIN promises = {} /\ OneFailsOneSucceeds) =>
        /\ pc # "Threw"
        /\ pc = "Ready" \/ OnItsWay
        /\ pc = "Ready" => DegradedSnapshot

\* C8, its case: populate has returned with one namespace failed and
\* another one read.
C8_Witness ==
    /\ pc = "Ready"
    /\ OneFailsOneSucceeds
    /\ \E n \in Listed : ResponseAt(n) # Undefined /\ ResponseAt(n).status = 404
    /\ \E n \in Listed : Succeeded(n) /\ ShortcutsAt(n) # <<>>

\* C9: in the final snapshot every entry of a listed namespace n under a
\* key k has key = k, keyword and argumentCount the two parts of k, and
\* namespace = n.
C9_DerivedFieldsMatchKey ==
    Final =>
        \A n \in Listed : \A i \in 1..Len(ShortcutsAt(n)) :
            LET key == ShortcutsAt(n)[i].k
                shortcut == ShortcutsAt(n)[i].v
            IN  /\ IsAnnotated(shortcut)
                /\ Has(shortcut, "argumentCount")
                /\ shortcut.key = key
                /\ shortcut.keyword = Element(Split(key), 1)
                /\ shortcut.argumentCount = Element(Split(key), 2)
                /\ shortcut.namespace = namespaceInfos[n].k

\* C10: where a document has a include b and b include c, all three in the
\* document itself, a ends with an include that does not point at c and
\* with no field that, of the three, only c has in the document.
C10_SingleLevelIncludes ==
    Final =>
        \A n \in Listed : Succeeded(n) =>
            \A a, b, c \in 1..Len(DocumentAt(n)) :
                LET doc == DocumentAt(n)
                    Includes(i, j) ==
                        /\ Has(doc[i].v, "include")
                        /\ Has(doc[i].v.include, "key")
                        /\ ~Has(doc[i].v.include, "namespace")
                        /\ doc[i].v.include.key = doc[j].k
                IN  (Includes(a, b) /\ Includes(b, c) /\ a # b /\ b # c /\ a # c) =>
                        /\ ShortcutsAt(n)[a].v.include.key # doc[c].k
                        /\ \A p \in DOMAIN doc[c].v \ (DOMAIN doc[a].v \cup DOMAIN doc[b].v) :
                                ~Has(ShortcutsAt(n)[a].v, p)

\* What fetchShortcuts returned: the descriptors with the shortcuts of
\* their documents, before any include is resolved.
FetchedInfos ==
    ProcessResponses(getInitialNamespaceInfos(thisNamespaces, thisGithub), responses).infos

\* C11: addIncludes called on the shortcuts that a first call returned
\* leaves them as the first call returned them, every field of every entry.
C11_AddIncludesIdempotent ==
    pc = "IncludesAddedAgain" =>
        namespaceInfos = addIncludes(FetchedInfos, namespaceInfos[1].k).infos

\* The i-th shortcut of doc includes a key that doc has.
IncludesKey(doc, i) ==
    /\ Has(doc[i].v, "include")
    /\ Has(doc[i].v.include, "key")
    /\ doc[i].v.include.key \in Keys(doc)

\* The same, the include naming no namespace.
IncludesWithin(doc, i) ==
    IncludesKey(doc, i) /\ ~Has(doc[i].v.include, "namespace")

TargetOf(doc, i) == IndexOf(doc, doc[i].v.include.key)

IncorrectInclude(doc, i) ==
    Has(doc[i].v, "include") /\ ~Has(doc[i].v.include, "key")

\* C16: after addIncludes, a shortcut whose include has no key is as the
\* document has it, this.error is set, and every shortcut after it that
\* includes a key of the document has all the fields of the included one.
C16_IncorrectIncludeSkipped ==
    pc = "IncludesAdded" =>
        \A i \in 1..Len(DocumentAt(1)) :
            LET doc == DocumentAt(1)
            IN  IncorrectInclude(doc, i) =>
                    /\ ShortcutsAt(1)[i].v = doc[i].v
                    /\ thisError
                    /\ \A j \in (i + 1)..Len(doc) :
                            IncludesKey(doc, j) =>
                                \A p \in DOMAIN doc[TargetOf(doc, j)].v :
                                    Has(ShortcutsAt(1)[j].v, p)

\* C16, its case: an include without a key stands before a shortcut that
\* includes a key of the document and has got a field it did not have.
C16_Witness ==
    /\ pc = "IncludesAdded"
    /\ thisError
    /\ \E i \in 1..Len(DocumentAt(1)) : \E j \in (i + 1)..Len(DocumentAt(1)) :
        LET doc == DocumentAt(1)
        IN  /\ IncorrectInclude(doc, i)
            /\ ShortcutsAt(1)[i].v = doc[i].v
            /\ IncludesKey(doc, j)
            /\ DOMAIN ShortcutsAt(1)[j].v # DOMAIN doc[j].v

\* C13: once populate has returned, namespaceInfos stays as it is: no
\* descriptor is added or replaced and no field of a shortcut changes.
C13_SnapshotFrozen ==
    [][pc = "Ready" => namespaceInfos' = namespaceInfos]_vars

\* C14: no two fetches are under way for the same namespace, and none for
\* a namespace that namespaceInfos already holds.
C14_FetchedAtMostOnce ==
    /\ \A f, g \in fetches : f.includeNamespace = g.includeNamespace => f = g
    /\ \A f \in fetches : f.includeNamespace \notin Keys(namespaceInfos)

\* The descriptors that are not of the caller's list: fetched for an include.
OnDemand == {n \in 1..Len(namespaceInfos) : n \notin Listed}

\* The reachable flags of the shortcuts of the caller's namespaces in infos.
ReachableFlags(infos) ==
    UNION {{<<infos[n].k, infos[n].v.shortcuts[i].k, infos[n].v.shortcuts[i].v.reachable>> :
                i \in {j \in 1..Len(infos[n].v.shortcuts) :
                            Has(infos[n].v.shortcuts[j].v, "reachable")}} :
            n \in {m \in 1..Len(infos) :
                        infos[m].k \in ListedNames /\ Has(infos[m].v, "shortcuts")}}

\* The fetch of a namespace that an include asked for settles.
IncludeFetchSettles == jobs = <<>> /\ fetches' # fetches

\* C20: no shortcut of a namespace fetched for an include ever has
\* reachable = true, and when the fetch of such a namespace settles, the
\* reachable flags of the shortcuts of the caller's namespaces stay as they
\* are.
C20_OnDemandNotReachable ==
    /\ [](\A n \in OnDemand : \A i \in 1..Len(ShortcutsAt(n)) :
            ~(Has(ShortcutsAt(n)[i].v, "reachable") /\ ShortcutsAt(n)[i].v.reachable))
    /\ [][IncludeFetchSettles =>
            ReachableFlags(namespaceInfos') = ReachableFlags(namespaceInfos)]_vars

\* The i-th namespace of the list is the marker '.', as a string or as the
\* github field of an object.
IsSelfString(i) == Has(thisNamespaces[i], "str") /\ thisNamespaces[i].str = "."

IsSelfGithub(i) == Has(thisNamespaces[i], "github") /\ thisNamespaces[i].github = "."

\* The descriptor is the Github collection of the account this.github.
IsOwnAccount(namespaceInfo) ==
    /\ namespaceInfo.type = "user"
    /\ Has(namespaceInfo, "github")
    /\ namespaceInfo.github = thisGithub
    /\ namespaceInfo.url = "https://raw.githubusercontent.com/" \o thisGithub
                                \o "/trovu-data-user/master/shortcuts.yml"

\* C18 as the specification has it: a namespace given as '.', string or
\* github field, is stored as the Github collection of this.github, and no
\* site collection named '.' is stored.
C18_SelfReferenceIsOwnAccount ==
    pc = "Resolved" =>
        \A i \in 1..Len(thisNamespaces) :
            (IsSelfString(i) \/ IsSelfGithub(i)) =>
                /\ IsOwnAccount(Get(namespaceInfos, NameOfSpec(i)))
                /\ "." \notin Keys(namespaceInfos)

\* C18, amended: a namespace given as an object whose github field is '.'
\* is stored as the Github collection of this.github; a namespace given as
\* the string '.' is shorter than 4 characters and is stored as the site
\* collection named '.'.
C18_SelfReferenceInGithubField ==
    pc = "Resolved" =>
        \A i \in 1..Len(thisNamespaces) :
            /\ IsSelfGithub(i) => IsOwnAccount(Get(namespaceInfos, NameOfSpec(i)))
            /\ IsSelfString(i) =>
                    /\ NameOfSpec(i) = "."
                    /\ Get(namespaceInfos, ".").type = "site"
                    /\ Get(namespaceInfos, ".").url =
                            "https://data.trovu.net/data/shortcuts/..yml"

\* C18, its case: the caller jdoe lists '.' and {github: '.'}.
C18_Witness ==
    /\ pc = "Resolved"
    /\ thisGithub = "jdoe"
    /\ \E i, j \in 1..Len(thisNamespaces) : IsSelfString(i) /\ IsSelfGithub(j)
    /\ Keys(namespaceInfos) = {".", "jdoe"}
    /\ Get(namespaceInfos, "jdoe").url =
            "https://raw.githubusercontent.com/jdoe/trovu-data-user/master/shortcuts.yml"

\* fetchShortcuts of populate has just returned.
FetchShortcutsReturned ==
    pc = "ResolvingIncludes" /\ jobs # <<>> /\ Head(jobs).kind = "forEach"

HasUrl(namespaceInfo) == Has(namespaceInfo, "url") /\ namespaceInfo.url # ""

\* C15: in whatever order the fetches of populate were answered, a
\* response is kept under the priority of the descriptor whose url it
\* answers, and when fetchShortcuts returns every descriptor with a url has
\* the shortcuts of the one response that answers its url (none when that
\* response is not 200 or does not parse); a descriptor without url has no
\* response and no shortcuts.
C15_ResponseOfOwnFetch ==
    /\ pc = "FetchingCollections" =>
            \A p \in DOMAIN responses : \E n \in 1..Len(namespaceInfos) :
                /\ namespaceInfos[n].v.priority = p
                /\ namespaceInfos[n].v.url = responses[p].url
    /\ FetchShortcutsReturned =>
            \A n \in 1..Len(namespaceInfos) :
                LET own == {p \in DOMAIN responses :
                                HasUrl(namespaceInfos[n].v)
                                    /\ responses[p].url = namespaceInfos[n].v.url}
                IN  IF HasUrl(namespaceInfos[n].v)
                    THEN /\ Cardinality(own) = 1
                         /\ \A p \in own :
                                ShortcutsAt(n) =
                                    IF responses[p].status = 200 /\ Has(responses[p], "doc")
                                    THEN verifyShortcuts(responses[p].doc).shortcuts
                                    ELSE <<>>
                    ELSE own = {} /\ ShortcutsAt(n) = <<>>

\* C15, its case: two namespaces whose fetches were answered with
\* different documents, each with the shortcuts of its own.
C15_Witness ==
    /\ FetchShortcutsReturned
    /\ Len(namespaceInfos) = 2
    /\ Succeeded(1) /\ Succeeded(2)
    /\ ResponseAt(1).doc # ResponseAt(2).doc
    /\ ResponseAt(1).url # ResponseAt(2).url
    /\ ShortcutsAt(1) # ShortcutsAt(2)

\* populate was called with a github account to read the config of.
GithubGiven == Has(params, "github") /\ params.github # ""

\* The config was fetched and nothing came, or a text that does not parse.
ConfigFailed ==
    /\ configYmlFetched # NoConfigFetch
    /\ configYmlFetched = Undefined \/ ~Has(configYmlFetched, "config")

\* this as populate sets it from params alone.
WithoutConfig == configured([configUrlTemplate |-> this.configUrlTemplate], params)

\* C17: with params.github the config is fetched before any collection is;
\* without it, or with the empty string, no config is fetched. A config
\* fetch that fails or does not parse sets this.error and leaves this as
\* params alone make it; populate goes on to fetch the collections, and
\* once they are all answered it is at Ready or on its way there.
C17_ConfigFailureNotFatal ==
    /\ pc = "FetchingUserConfig" =>
            /\ GithubGiven
            /\ configYmlFetched = NoConfigFetch
            /\ namespaceInfos = <<>>
            /\ DOMAIN promises = {} /\ DOMAIN responses = {}
    /\ (pc \notin {"Uninitialized", "FetchingUserConfig"} /\ GithubGiven) =>
            configYmlFetched # NoConfigFetch
    /\ (pc # "Uninitialized" /\ ~GithubGiven) =>
            pc # "FetchingUserConfig" /\ configYmlFetched = NoConfigFetch
    /\ ConfigFailed =>
            /\ thisError
            /\ this = SetError(WithoutConfig, TRUE)
            /\ pc = "FetchingCollections" =>
                    DOMAIN promises \cup DOMAIN responses = Priorities
            /\ (pc # "Threw" /\ DOMAIN promises = {}) => (pc = "Ready" \/ OnItsWay)

\* C17, its case: the config of jdoe did not parse and populate has
\* returned, the collections fetched.
C17_Witness ==
    /\ pc = "Ready"
    /\ GithubGiven
    /\ ConfigFailed
    /\ Has(configYmlFetched, "text")
    /\ thisError
    /\ \E n \in Listed : Succeeded(n)

\* C19: when every fetch is answered, populate, once called, returns in
\* the end with this.namespaceInfos set.
C19_PopulateReturns == (pc # "Uninitialized") ~> (pc = "Ready")

\* C19, its case: populate has returned after a config fetch and two
\* collection fetches, and a namespace fetched for an include has come.
C19_Witness ==
    /\ Final
    /\ GithubGiven
    /\ configYmlFetched # NoConfigFetch
    /\ Cardinality(DOMAIN responses) >= 2
    /\ OnDemand # {}

\* The query forces a namespace: populate has taken extraNamespaceName from
\* QueryParser.parse and pushed it on this.namespaces.
Forced ==
    /\ pc \notin {"Uninitialized", "FetchingUserConfig"}
    /\ Has(this, "extraNamespaceName") /\ this.extraNamespaceName # ""

\* The position in namespaceInfos of the descriptor of the forced namespace.
ForcedAt == IndexOf(namespaceInfos, this.extraNamespaceName)

\* The forced namespace is the last of this.namespaces, and the priority of
\* its descriptor is above that of every other descriptor.
ForcedIsLastAndHighest ==
    /\ thisNamespaces # <<>>
    /\ thisNamespaces[Len(thisNamespaces)] = [str |-> this.extraNamespaceName]
    /\ this.extraNamespaceName \in Keys(namespaceInfos)
    /\ \A n \in 1..Len(namespaceInfos) :
            n # ForcedAt =>
                namespaceInfos[n].v.priority < namespaceInfos[ForcedAt].v.priority

IsReachable(shortcut) == Has(shortcut, "reachable") /\ shortcut.reachable

\* Every entry of the forced namespace has reachable = true.
ForcedEntriesReachable ==
    \A i \in 1..Len(ShortcutsAt(ForcedAt)) : IsReachable(ShortcutsAt(ForcedAt)[i].v)

\* No entry of another namespace, under a key that the forced namespace
\* defines, has reachable = true.
ForcedShadowsOthers ==
    \A n \in 1..Len(namespaceInfos) : \A i \in 1..Len(ShortcutsAt(n)) :
        (n # ForcedAt /\ ShortcutsAt(n)[i].k \in Keys(ShortcutsAt(ForcedAt)))
            => ~IsReachable(ShortcutsAt(n)[i].v)

\* C21: when the query forces a namespace, that namespace is the last of
\* this.namespaces and its descriptor has the highest priority of all; once
\* populate has returned, every entry of the forced namespace has
\* reachable = true, and under a key that it defines no entry of another
\* namespace has.
C21_ForcedNamespaceShadows ==
    Forced =>
        /\ ForcedIsLastAndHighest
        /\ pc = "Ready" => ForcedEntriesReachable /\ ForcedShadowsOthers

\* processCall has split its query.
SplitDone == call.at \notin {"none", "Called"}

HasSpace(str) == \E i \in 1..Len(str) : str[i] = " "

FirstSpace(str) ==
    CHOOSE i \in 1..Len(str) : str[i] = " " /\ \A j \in 1..(i - 1) : str[j] # " "

\* The keyword is the text before the first space of the query, and the
\* remainder is the text after it; without a space there is no remainder.
KeywordAndRemainder ==
    IF HasSpace(call.query)
    THEN /\ call.keyword = SubSeq(call.query, 1, FirstSpace(call.query) - 1)
         /\ Has(call, "argumentString")
         /\ call.argumentString =
                SubSeq(call.query, FirstSpace(call.query) + 1, Len(call.query))
    ELSE /\ call.keyword = call.query
         /\ ~Has(call, "argumentString")

\* The remainder of the query is missing or has no character.
NoRemainder ==
    ~HasSpace(call.query) \/ FirstSpace(call.query) = Len(call.query)

\* processCall went on with an empty sequence of arguments.
NoArguments ==
    /\ call.at # "Threw"
    /\ Has(call, "arguments") /\ call.arguments = <<>>

====
